---- MODULE Spec2Model ----
(***************************************************************************)
(* A model of goxz.go: the command-line run (Run, cli.run, goxz.init,      *)
(* goxz.prepareWorkdir, goxz.builders) over a small file system, and the   *)
(* pure helpers resolvePlatforms, setupDest and gatherResources.           *)
(*                                                                         *)
(* Strings are sequences of one-character strings; a path is a record      *)
(* [abs, comps] whose components are such strings; the file system maps    *)
(* every existing absolute path to the kind of node found there.           *)
(***************************************************************************)
EXTENDS Integers, Sequences, FiniteSets

VARIABLES pc, args, gx, cwd, fs, err, exitCode, defers, next, built, removeAlls, events

vars == <<pc, args, gx, cwd, fs, err, exitCode, defers, next, built, removeAlls, events>>

(***************************************************************************)
(* Bounds of the model.                                                    *)
(***************************************************************************)
\* longest -os / -arch string enumerated for resolvePlatforms
MaxLen == 4
\* most entries of a directory listing enumerated for gatherResources and setupDest
MaxEntries == 3
\* most -os tokens given on the command line of a modelled run
MaxOs == 2

(***************************************************************************)
(* Characters and strings.                                                 *)
(***************************************************************************)
\* the characters used, in byte order
Ascii ==
    << "\t", "\n", " ", ",", "-", ".", "0", "1", "2", "3", "4", "5", "6", "7", "8",
       "9", ":", "A", "B", "C", "D", "E", "F", "G", "H", "I", "J", "K", "L", "M", "N",
       "O", "P", "Q", "R", "S", "T", "U", "V", "W", "X", "Y", "Z", "_", "a", "b", "c",
       "d", "e", "f", "g", "h", "i", "j", "k", "l", "m", "n", "o", "p", "q", "r", "s",
       "t", "u", "v", "w", "x", "y", "z" >>

CodeOf(c) == CHOOSE i \in 1..Len(Ascii) : Ascii[i] = c

\* unicode.ToLower on the characters used (what (?i) folds)
ToLowerChar(c) ==
    IF CodeOf(c) >= CodeOf("A") /\ CodeOf(c) <= CodeOf("Z")
    THEN Ascii[CodeOf(c) + (CodeOf("a") - CodeOf("A"))]
    ELSE c

\* the regular expression class \s
RegexSpace(c) == c \in {" ", "\t", "\n", "\r", "\f"}

\* unicode.IsSpace, which strings.TrimSpace uses ("VT" stands for U+000B)
IsSpace(c) == RegexSpace(c) \/ c = "VT"

HasPrefix(s, p) == Len(s) >= Len(p) /\ SubSeq(s, 1, Len(p)) = p

HasSuffix(s, p) == Len(s) >= Len(p) /\ SubSeq(s, Len(s) - Len(p) + 1, Len(s)) = p

RECURSIVE TrimLeft(_)
TrimLeft(s) == IF s # <<>> /\ IsSpace(Head(s)) THEN TrimLeft(Tail(s)) ELSE s

RECURSIVE TrimRight(_)
TrimRight(s) ==
    IF s # <<>> /\ IsSpace(s[Len(s)]) THEN TrimRight(SubSeq(s, 1, Len(s) - 1)) ELSE s

TrimSpace(s) == TrimRight(TrimLeft(s))

\* byte-wise string order, the order of a sorted directory listing
RECURSIVE StrLess(_, _)
StrLess(a, b) ==
    IF a = <<>> THEN b # <<>>
    ELSE IF b = <<>> THEN FALSE
    ELSE IF Head(a) = Head(b) THEN StrLess(Tail(a), Tail(b))
    ELSE CodeOf(Head(a)) < CodeOf(Head(b))

(***************************************************************************)
(* resolvePlatforms.                                                       *)
(***************************************************************************)
\* number of \s characters of s from position p on
RECURSIVE SpaceRun(_, _)
SpaceRun(s, p) == IF p <= Len(s) /\ RegexSpace(s[p]) THEN 1 + SpaceRun(s, p + 1) ELSE 0

\* length of the match of \s*(?:\s+|,)\s* that starts at p (0: no match there)
separateReg(s, p) ==
    LET w == SpaceRun(s, p)
    IN  IF p + w <= Len(s) /\ s[p + w] = ","
        THEN w + 1 + SpaceRun(s, p + w + 1)
        ELSE w

\* separateReg.Split(s, -1): the pieces between successive leftmost matches
RECURSIVE SplitFrom(_, _, _)
SplitFrom(s, beg, p) ==
    IF p > Len(s) THEN << SubSeq(s, beg, Len(s)) >>
    ELSE IF separateReg(s, p) > 0
         THEN << SubSeq(s, beg, p - 1) >>
              \o SplitFrom(s, p + separateReg(s, p), p + separateReg(s, p))
         ELSE SplitFrom(s, beg, p + 1)

Split(s) == SplitFrom(s, 1, 1)

\* the inner loop: the platforms of one os token
RECURSIVE ArchLoop(_, _)
ArchLoop(os, archTargets) ==
    IF archTargets = <<>> THEN <<>>
    ELSE IF TrimSpace(Head(archTargets)) = <<>> THEN ArchLoop(os, Tail(archTargets))
    ELSE << [os |-> os, arch |-> Head(archTargets)] >> \o ArchLoop(os, Tail(archTargets))

\* the outer loop
RECURSIVE OsLoop(_, _)
OsLoop(osTargets, archTargets) ==
    IF osTargets = <<>> THEN <<>>
    ELSE IF TrimSpace(Head(osTargets)) = <<>> THEN OsLoop(Tail(osTargets), archTargets)
    ELSE ArchLoop(Head(osTargets), archTargets) \o OsLoop(Tail(osTargets), archTargets)

\* the key of the seen map
platformKey(pf) == pf.os \o <<":">> \o pf.arch

\* the second loop: keep a platform when its key has not been seen
RECURSIVE Uniq(_, _)
Uniq(platforms, seen) ==
    IF platforms = <<>> THEN <<>>
    ELSE IF platformKey(Head(platforms)) \in seen THEN Uniq(Tail(platforms), seen)
    ELSE << Head(platforms) >>
         \o Uniq(Tail(platforms), seen \cup {platformKey(Head(platforms))})

resolvePlatforms(os, arch) == Uniq(OsLoop(Split(os), Split(arch)), {})

(***************************************************************************)
(* Paths and the file system.                                              *)
(***************************************************************************)
\* the empty string, as a path
NoPath == [abs |-> FALSE, comps |-> <<>>]

\* filepath.Join(p, n)
Join(p, n) == [p EXCEPT !.comps = Append(@, n)]

\* filepath.Base(p)
Base(p) == IF p.comps = <<>> THEN <<".">> ELSE p.comps[Len(p.comps)]

\* the node a path names when the working directory is wd
Resolve(wd, p) == IF p.abs THEN p.comps ELSE wd \o p.comps

\* filepath.Abs(p)
Abs(wd, p) == [abs |-> TRUE, comps |-> Resolve(wd, p)]

IsUnder(a, d) == Len(a) >= Len(d) /\ SubSeq(a, 1, Len(d)) = d

Parent(a) == SubSeq(a, 1, Len(a) - 1)

IsDir(fsys, a) == a \in DOMAIN fsys /\ fsys[a] = "dir"

\* the file system with node a added
WithNode(fsys, a, kind) == [x \in DOMAIN fsys \cup {a} |-> IF x = a THEN kind ELSE fsys[x]]

\* os.Remove(a)
Remove(fsys, a) == [x \in DOMAIN fsys \ {a} |-> fsys[x]]

\* os.RemoveAll(a): a and everything under it
RemoveAll(fsys, a) == [x \in {y \in DOMAIN fsys : ~IsUnder(y, a)} |-> fsys[x]]

RECURSIVE SortNames(_)
SortNames(S) ==
    IF S = {} THEN <<>>
    ELSE LET m == CHOOSE x \in S : \A y \in S \ {x} : StrLess(x, y)
         IN  << m >> \o SortNames(S \ {m})

NamesIn(fsys, d) == {a[Len(a)] : a \in {x \in DOMAIN fsys : Len(x) = Len(d) + 1 /\ IsUnder(x, d)}}

\* ioutil.ReadDir(d): the entries of d sorted by name, each with its mode
ReadDir(fsys, d) ==
    LET names == SortNames(NamesIn(fsys, d))
    IN  [i \in 1..Len(names) |-> [name |-> names[i], kind |-> fsys[Append(d, names[i])]]]

\* an injected failure of the n-th call of one file-system operation
NoFault == [op |-> "none", n |-> 0]

(***************************************************************************)
(* setupDest.                                                              *)
(***************************************************************************)
dotZip == << ".", "z", "i", "p" >>

dotTarGz == << ".", "t", "a", "r", ".", "g", "z" >>

\* the test that selects a file for removal
isStaleArchive(n) == HasPrefix(n, dotZip) \/ HasPrefix(n, dotTarGz)

\* the loop over the listing; removes counts the os.Remove calls made so far
RECURSIVE purgeLoop(_, _, _, _, _)
purgeLoop(fsys, d, files, fault, removes) ==
    IF files = <<>> THEN [err |-> "nil", fs |-> fsys]
    ELSE IF Head(files).kind # "file" THEN purgeLoop(fsys, d, Tail(files), fault, removes)
    ELSE IF ~isStaleArchive(Head(files).name)
         THEN purgeLoop(fsys, d, Tail(files), fault, removes)
    ELSE IF fault.op = "remove" /\ fault.n = removes + 1 THEN [err |-> "remove", fs |-> fsys]
    ELSE purgeLoop(Remove(fsys, Append(d, Head(files).name)), d, Tail(files), fault,
                   removes + 1)

\* setupDest(dir) run in working directory wd: the error returned and the file system left
setupDest(fsys, wd, dir, fault) ==
    LET d == Resolve(wd, dir)
    IN  IF d \notin DOMAIN fsys
        THEN IF fault.op = "mkdir" \/ ~IsDir(fsys, Parent(d))
             THEN [err |-> "mkdir", fs |-> fsys]
             ELSE [err |-> "nil", fs |-> WithNode(fsys, d, "dir")]
        ELSE IF fault.op = "readdir" \/ ~IsDir(fsys, d)
             THEN [err |-> "readdir", fs |-> fsys]
             ELSE purgeLoop(fsys, d, ReadDir(fsys, d), fault, 0)

(***************************************************************************)
(* gatherResources.                                                        *)
(***************************************************************************)
RECURSIVE ToLower(_)
ToLower(s) == IF s = <<>> THEN <<>> ELSE << ToLowerChar(Head(s)) >> \o ToLower(Tail(s))

resourcePrefixes ==
    { << "r", "e", "a", "d", "m", "e" >>, << "l", "i", "c", "e", "n", "s", "e" >>,
      << "c", "r", "e", "d", "i", "t" >>, << "i", "n", "s", "t", "a", "l", "l" >> }

\* resourceReg.MatchString(n): (?i)^(?:readme|license|credit|install)
resourceReg(n) == \E p \in resourcePrefixes : HasPrefix(ToLower(n), p)

dotGo == << ".", "g", "o" >>

\* isResource without the exclusion of Go source files
isResourceAnySuffix(n) == resourceReg(n)

\* the test that selects a regular file as a resource
isResource(n) == resourceReg(n) /\ ~HasSuffix(n, dotGo)

RECURSIVE gatherLoop(_, _)
gatherLoop(dir, files) ==
    IF files = <<>> THEN <<>>
    ELSE IF Head(files).kind # "file" THEN gatherLoop(dir, Tail(files))
    ELSE IF isResource(Head(files).name)
         THEN << Join(dir, Head(files).name) >> \o gatherLoop(dir, Tail(files))
         ELSE gatherLoop(dir, Tail(files))

\* gatherResources(dir) run in working directory wd: the paths and the error returned
gatherResources(fsys, wd, dir, fault) ==
    IF fault.op = "gather" \/ ~IsDir(fsys, Resolve(wd, dir))
    THEN [err |-> "readdir", ret |-> <<>>]
    ELSE [err |-> "nil", ret |-> gatherLoop(dir, ReadDir(fsys, Resolve(wd, dir)))]

(***************************************************************************)
(* The command-line run: Run, cli.run, goxz.init, goxz.prepareWorkdir,     *)
(* goxz.builders.                                                          *)
(***************************************************************************)
exitCodeOK == 0

exitFlagErr == 1

exitCodeErr == 2

\* the default of the -d flag, and of getDest
goxzDir == [abs |-> FALSE, comps |-> << << "g", "o", "x", "z" >> >>]

defaultOs ==
    << "l", "i", "n", "u", "x", " ", "d", "a", "r", "w", "i", "n", " ", "w", "i", "n", "d",
       "o", "w", "s" >>

defaultArch == << "a", "m", "d", "6", "4" >>

\* the names ioutil.TempDir(dir, ".goxz-") may draw
TempNames == { << ".", "g", "o", "x", "z", "-", "1" >>, << ".", "g", "o", "x", "z", "-", "2" >> }

\* the goxz value parseArgs returns for the parsed flags
parsedGx(a) ==
    [os |-> a.os, arch |-> a.arch, dest |-> a.dest, work |-> a.work, projDir |-> a.C,
     name |-> a.name, platforms |-> <<>>, resources |-> <<>>, workDir |-> NoPath]

\* gx.getDest(): the field after the call
getDest(g) == IF g.dest = NoPath THEN goxzDir ELSE g.dest

\* gx.init() in working directory wd: the error returned, gx and the file system left,
\* and whether setupDest returned nil
init(g, fsys, wd, fault) ==
    LET g1 == IF g.projDir = NoPath THEN [g EXCEPT !.projDir = Abs(wd, NoPath)] ELSE g
        g2 == IF g1.name = <<>> THEN [g1 EXCEPT !.name = Base(g1.projDir)] ELSE g1
        g3 == [g2 EXCEPT !.dest = getDest(g2)]
        sd == setupDest(fsys, wd, g3.dest, fault)
        g4 == [g3 EXCEPT !.os = IF @ = <<>> THEN defaultOs ELSE @,
                         !.arch = IF @ = <<>> THEN defaultArch ELSE @]
        g5 == [g4 EXCEPT !.platforms = resolvePlatforms(g4.os, g4.arch)]
        gr == gatherResources(sd.fs, wd, g5.projDir, fault)
        g6 == [g5 EXCEPT !.resources = gr.ret]
    IN  IF g.projDir = NoPath /\ fault.op = "abs"
        THEN [err |-> "abs", gx |-> g, fs |-> fsys, dest |-> FALSE]
        ELSE IF sd.err # "nil" THEN [err |-> sd.err, gx |-> g3, fs |-> sd.fs, dest |-> FALSE]
        ELSE IF gr.err # "nil" THEN [err |-> gr.err, gx |-> g6, fs |-> sd.fs, dest |-> TRUE]
        ELSE IF fault.op = "abspkgs" THEN [err |-> "rel", gx |-> g6, fs |-> sd.fs, dest |-> TRUE]
        ELSE [err |-> "nil", gx |-> g6, fs |-> sd.fs, dest |-> TRUE]

\* gx.builders(): one builder per platform, in the order of gx.platforms
builders(g) ==
    [i \in 1..Len(g.platforms) |->
        [platform |-> g.platforms[i], name |-> g.name, workDirBase |-> g.workDir,
         resources |-> g.resources]]

\* the staging directory of a builder: the child of the workspace named after its platform
stagingDir(wd, bdr) ==
    Append(Resolve(wd, bdr.workDirBase), bdr.platform.os \o << "_" >> \o bdr.platform.arch)

\* bdr.build(): the file system it leaves
build(fsys, wd, bdr) ==
    IF IsDir(fsys, Resolve(wd, bdr.workDirBase))
    THEN WithNode(fsys, stagingDir(wd, bdr), "dir")
    ELSE fsys

\* gx.prepareWorkdir() in working directory wd, ioutil.TempDir drawing the name n
prepareWorkdir(g, fsys, wd, n, fault) ==
    IF fault.op = "tempdir" \/ ~IsDir(fsys, Resolve(wd, g.projDir))
    THEN [err |-> "tempdir", gx |-> [g EXCEPT !.workDir = NoPath], fs |-> fsys]
    ELSE [err |-> "nil", gx |-> [g EXCEPT !.workDir = Join(g.projDir, n)],
          fs |-> WithNode(fsys, Append(Resolve(wd, g.projDir), n), "dir")]

\* the goxz value before parseArgs has run
ZeroGx ==
    [os |-> <<>>, arch |-> <<>>, dest |-> NoPath, work |-> FALSE, projDir |-> NoPath,
     name |-> <<>>, platforms |-> <<>>, resources |-> <<>>, workDir |-> NoPath]

Top(stack) == stack[Len(stack)]

Pop(stack) == SubSeq(stack, 1, Len(stack) - 1)

\* cli.run, lines 57-60: parseArgs and its error return
runParseArgs ==
    /\ pc = "parseArgs"
    /\ IF args.flagErr # "nil"
       THEN err' = args.flagErr /\ pc' = "return" /\ UNCHANGED gx
       ELSE gx' = parsedGx(args) /\ pc' = "chdir" /\ UNCHANGED err
    /\ UNCHANGED <<args, cwd, fs, exitCode, defers, next, built, removeAlls, events>>

\* cli.run, lines 61-71: the change into the -C directory
runChdir ==
    /\ pc = "chdir"
    /\ IF gx.projDir = NoPath
       THEN pc' = "init" /\ UNCHANGED <<cwd, defers, err>>
       ELSE \E fault \in {NoFault, [op |-> "abs", n |-> 1]} :
               IF fault.op = "abs"
               THEN err' = "abs" /\ pc' = "return" /\ UNCHANGED <<cwd, defers>>
               ELSE IF ~IsDir(fs, Resolve(cwd, gx.projDir))
               THEN err' = "chdir" /\ pc' = "return" /\ UNCHANGED <<cwd, defers>>
               ELSE /\ cwd' = Resolve(cwd, gx.projDir)
                    /\ defers' = Append(defers, [fn |-> "Chdir", prev |-> cwd])
                    /\ pc' = "init"
                    /\ UNCHANGED err
    /\ UNCHANGED <<args, gx, fs, exitCode, next, built, removeAlls, events>>

InitFaults ==
    {NoFault} \cup {[op |-> o, n |-> 1] : o \in {"abs", "mkdir", "readdir", "remove", "gather", "abspkgs"}}
              \cup {[op |-> "remove", n |-> 2]}

\* runInit with the error of gx.init() dropped
runInitIgnoringError ==
    /\ pc = "init"
    /\ \E fault \in InitFaults :
          LET r == init(gx, fs, cwd, fault)
          IN  /\ gx' = r.gx
              /\ fs' = r.fs
              /\ events' = IF r.dest
                           THEN Append(events, [ev |-> "dest", path |-> Resolve(cwd, r.gx.dest)])
                           ELSE events
    /\ pc' = "prepareWorkdir"
    /\ UNCHANGED <<args, cwd, err, exitCode, defers, next, built, removeAlls>>

\* cli.run, lines 72-75: gx.init() and its error return
runInit ==
    /\ pc = "init"
    /\ \E fault \in InitFaults :
          LET r == init(gx, fs, cwd, fault)
          IN  /\ gx' = r.gx
              /\ fs' = r.fs
              /\ events' = IF r.dest
                           THEN Append(events, [ev |-> "dest", path |-> Resolve(cwd, r.gx.dest)])
                           ELSE events
              /\ IF r.err # "nil"
                 THEN err' = r.err /\ pc' = "return"
                 ELSE pc' = "prepareWorkdir" /\ UNCHANGED err
    /\ UNCHANGED <<args, cwd, exitCode, defers, next, built, removeAlls>>

\* cli.run, lines 76-87: gx.prepareWorkdir(), its error return, the deferred cleanup
runPrepareWorkdir ==
    /\ pc = "prepareWorkdir"
    /\ \E fault \in {NoFault, [op |-> "tempdir", n |-> 1]} :
       \E n \in TempNames :
          LET r == prepareWorkdir(gx, fs, cwd, n, fault)
          IN  /\ Append(Resolve(cwd, gx.projDir), n) \notin DOMAIN fs
              /\ gx' = r.gx
              /\ fs' = r.fs
              /\ IF r.err # "nil"
                 THEN err' = r.err /\ pc' = "return" /\ UNCHANGED <<defers, next, events>>
                 ELSE /\ defers' = Append(defers, [fn |-> "cleanup", prev |-> <<>>])
                      /\ events' = Append(events, [ev |-> "workdir",
                                                   path |-> Resolve(cwd, r.gx.workDir)])
                      /\ next' = 1
                      /\ pc' = "builders"
                      /\ UNCHANGED err
    /\ UNCHANGED <<args, cwd, exitCode, built, removeAlls>>

\* runBuild leaving the loop at the first build() that fails
runBuildStoppingOnError ==
    /\ pc = "builders"
    /\ next <= Len(builders(gx))
    /\ \E ok \in BOOLEAN :
          /\ built' = Append(built, [index |-> next, platform |-> builders(gx)[next].platform,
                                     ok |-> ok])
          /\ next' = IF ok THEN next + 1 ELSE Len(builders(gx)) + 1
    /\ fs' = build(fs, cwd, builders(gx)[next])
    /\ events' = Append(events, [ev |-> "build", path |-> stagingDir(cwd, builders(gx)[next])])
    /\ UNCHANGED <<pc, args, gx, cwd, err, exitCode, defers, removeAlls>>

\* cli.run, lines 89-92: one iteration of the loop over gx.builders()
runBuild ==
    /\ pc = "builders"
    /\ next <= Len(builders(gx))
    /\ \E ok \in BOOLEAN :
          built' = Append(built, [index |-> next, platform |-> builders(gx)[next].platform,
                                  ok |-> ok])
    /\ fs' = build(fs, cwd, builders(gx)[next])
    /\ events' = Append(events, [ev |-> "build", path |-> stagingDir(cwd, builders(gx)[next])])
    /\ next' = next + 1
    /\ UNCHANGED <<pc, args, gx, cwd, err, exitCode, defers, removeAlls>>

\* cli.run, line 94
runReturn ==
    /\ pc = "builders"
    /\ next > Len(builders(gx))
    /\ err' = "nil"
    /\ pc' = "return"
    /\ UNCHANGED <<args, gx, cwd, fs, exitCode, defers, next, built, removeAlls, events>>

\* deferredCleanup with the test of gx.work inverted
deferredCleanupInverted ==
    /\ pc = "return"
    /\ defers # <<>>
    /\ Top(defers).fn = "cleanup"
    /\ IF gx.work
       THEN fs' = RemoveAll(fs, Resolve(cwd, gx.workDir)) /\ removeAlls' = removeAlls + 1
       ELSE UNCHANGED <<fs, removeAlls>>
    /\ defers' = Pop(defers)
    /\ UNCHANGED <<pc, args, gx, cwd, err, exitCode, next, built, events>>

\* cli.run, lines 80-84: the deferred function
deferredCleanup ==
    /\ pc = "return"
    /\ defers # <<>>
    /\ Top(defers).fn = "cleanup"
    /\ IF ~gx.work
       THEN fs' = RemoveAll(fs, Resolve(cwd, gx.workDir)) /\ removeAlls' = removeAlls + 1
       ELSE UNCHANGED <<fs, removeAlls>>
    /\ defers' = Pop(defers)
    /\ UNCHANGED <<pc, args, gx, cwd, err, exitCode, next, built, events>>

\* cli.run, line 70: the deferred os.Chdir(prev)
deferredChdir ==
    /\ pc = "return"
    /\ defers # <<>>
    /\ Top(defers).fn = "Chdir"
    /\ cwd' = IF IsDir(fs, Top(defers).prev) THEN Top(defers).prev ELSE cwd
    /\ defers' = Pop(defers)
    /\ UNCHANGED <<pc, args, gx, fs, err, exitCode, next, built, removeAlls, events>>

\* Run: the exit code for what cli.run returned
Run ==
    /\ pc = "return"
    /\ defers = <<>>
    /\ exitCode' = IF err # "nil" THEN exitCodeErr ELSE exitCodeOK
    /\ pc' = "exit"
    /\ UNCHANGED <<args, gx, cwd, fs, err, defers, next, built, removeAlls, events>>

(***************************************************************************)
(* The states a run can start in.                                          *)
(***************************************************************************)
home == << "h", "o", "m", "e" >>

app == << "a", "p", "p" >>

nope == << "n", "o", "p", "e" >>

linux == << "l", "i", "n", "u", "x" >>

darwin == << "d", "a", "r", "w", "i", "n" >>

windows == << "w", "i", "n", "d", "o", "w", "s" >>

freebsd == << "f", "r", "e", "e", "b", "s", "d" >>

readmeMd == << "R", "E", "A", "D", "M", "E", ".", "m", "d" >>

licenseFile == << "L", "I", "C", "E", "N", "S", "E" >>

installGo == << "i", "n", "s", "t", "a", "l", "l", ".", "g", "o" >>

mainGo == << "m", "a", "i", "n", ".", "g", "o" >>

creditsTxt == << "C", "r", "e", "d", "i", "t", "s", ".", "t", "x", "t" >>

installUpperGo == << "I", "N", "S", "T", "A", "L", "L", ".", "G", "O" >>

readFile == << "r", "e", "a", "d" >>

xReadme == << "x", "r", "e", "a", "d", "m", "e" >>

staleZip == << "a", "p", "p", "_", "l", "i", "n", "u", "x", "_", "a", "m", "d", "6", "4", ".", "z", "i", "p" >>

staleTarGz == << "a", "p", "p", "_", "l", "i", "n", "u", "x", "_", "a", "m", "d", "6", "4", ".", "t", "a", "r", ".", "g", "z" >>

dotZipRc == << ".", "z", "i", "p", "r", "c" >>

notesTxt == << "n", "o", "t", "e", "s", ".", "t", "x", "t" >>

\* the file system holding the nodes given as [path, kind] records
MakeFs(nodes) == [a \in {n.path : n \in nodes} |-> (CHOOSE n \in nodes : n.path = a).kind]

Node(path, kind) == [path |-> path, kind |-> kind]

Home == << home >>

App == << home, app >>

\* a project tree: sources and resources in the starting directory and in its child app
ProjectNodes ==
    { Node(<<>>, "dir"), Node(Home, "dir"), Node(App, "dir"),
      Node(Append(Home, readmeMd), "file"), Node(Append(Home, mainGo), "file"),
      Node(Append(App, licenseFile), "file"), Node(Append(App, installGo), "file"),
      Node(Append(App, creditsTxt), "file") }

\* app/app, which a project may or may not have
NestedNodes == { Node(Append(App, app), "dir"), Node(Append(Append(App, app), readmeMd), "file") }

\* a destination directory left by a previous run
DestNodes(d) ==
    { Node(d, "dir"), Node(Append(d, staleZip), "file"), Node(Append(d, staleTarGz), "file"),
      Node(Append(d, dotZipRc), "file"), Node(Append(d, notesTxt), "file") }

\* what the starting state holds at a destination path: nothing, an empty directory,
\* or the directory a previous run left
DestChoice(d, c) ==
    IF c = "absent" THEN {} ELSE IF c = "empty" THEN { Node(d, "dir") } ELSE DestNodes(d)

StartFs ==
    { MakeFs(ProjectNodes \cup n \cup DestChoice(Append(Home, goxzDir.comps[1]), c)
                          \cup DestChoice(Append(App, goxzDir.comps[1]), c)) :
        n \in { {}, NestedNodes }, c \in { "absent", "empty", "stale" } }

osNames == << linux, darwin, windows, freebsd >>

\* the first k names of osNames separated by ", "
RECURSIVE OsList(_)
OsList(k) == IF k = 1 THEN osNames[1] ELSE OsList(k - 1) \o << ",", " " >> \o osNames[k]

OsArgs == { <<>> } \cup { OsList(k) : k \in 1..MaxOs }

ArchArgs == { <<>>, << "a", "m", "d", "6", "4", " ", "a", "r", "m", "6", "4" >> }

\* what the flag set holds after fs.Parse: the flags of a command line that parses
GoodArgs ==
    [ flagErr : { "nil" }, os : OsArgs, arch : ArchArgs, dest : { goxzDir },
      work : BOOLEAN, name : { <<>> },
      C : { NoPath, [abs |-> TRUE, comps |-> App], [abs |-> FALSE, comps |-> << app >>],
            [abs |-> FALSE, comps |-> << nope >>] } ]

\* a command line fs.Parse rejects (an unknown flag), or -h
BadArgs ==
    [ flagErr : { "invalid", "ErrHelp" }, os : { <<>> }, arch : { <<>> }, dest : { goxzDir },
      work : { FALSE }, name : { <<>> }, C : { NoPath } ]

Init ==
    /\ pc = "parseArgs"
    /\ args \in GoodArgs \cup BadArgs
    /\ gx = ZeroGx
    /\ cwd = Home
    /\ fs \in StartFs
    /\ err = "unset"
    /\ exitCode = -1
    /\ defers = <<>>
    /\ next = 0
    /\ built = <<>>
    /\ removeAlls = 0
    /\ events = <<>>

Next ==
    \/ runParseArgs
    \/ runChdir
    \/ runInit
    \/ runPrepareWorkdir
    \/ runBuild
    \/ runReturn
    \/ deferredCleanup
    \/ deferredChdir
    \/ Run

Spec == Init /\ [][Next]_vars

(***************************************************************************)
(* resolvePlatforms on its own: every pair of short strings over an        *)
(* alphabet of a letter, the key separator, a blank and a comma, and the   *)
(* documented example.                                                     *)
(***************************************************************************)
Alphabet == { "a", ":", " ", "," }

Strings(n) == UNION { [1..k -> Alphabet] : k \in 0..n }

exampleOs == << "l", "i", "n", "u", "x", ",", " ", "d", "a", "r", "w", "i", "n" >>

exampleArch == << "a", "m", "d", "6", "4", " ", "a", "r", "m", "6", "4" >>

InitResolve ==
    /\ pc = "resolvePlatforms"
    /\ \/ \E os \in Strings(MaxLen), arch \in Strings(MaxLen) :
             gx = [ZeroGx EXCEPT !.os = os, !.arch = arch]
       \/ gx = [ZeroGx EXCEPT !.os = exampleOs, !.arch = exampleArch]
    /\ args = [flagErr |-> "nil"]
    /\ cwd = <<>>
    /\ fs = MakeFs({ Node(<<>>, "dir") })
    /\ err = "unset"
    /\ exitCode = -1
    /\ defers = <<>>
    /\ next = 0
    /\ built = <<>>
    /\ removeAlls = 0
    /\ events = <<>>

\* the call gx.platforms, err = resolvePlatforms(gx.os, gx.arch)
callResolvePlatforms ==
    /\ pc = "resolvePlatforms"
    /\ gx' = [gx EXCEPT !.platforms = resolvePlatforms(gx.os, gx.arch)]
    /\ err' = "nil"
    /\ pc' = "resolved"
    /\ UNCHANGED <<args, cwd, fs, exitCode, defers, next, built, removeAlls, events>>

NextResolve == callResolvePlatforms

SpecResolve == InitResolve /\ [][NextResolve]_vars

(***************************************************************************)
(* gatherResources and setupDest on their own: every directory of at most  *)
(* MaxEntries entries drawn from a set of names, each entry a regular      *)
(* file, a directory or another non-regular node.                          *)
(***************************************************************************)
Kinds == { "file", "dir", "other" }

\* every directory d holding at most MaxEntries of the names, of any kinds
Listings(d, names) ==
    { MakeFs({ Node(<<>>, "dir"), Node(Parent(d), "dir"), Node(d, "dir") }
             \cup { Node(Append(d, n), k[n]) : n \in S }) :
        <<S, k>> \in { <<S, k>> \in (SUBSET names) \X [names -> Kinds] :
                         /\ Cardinality(S) <= MaxEntries
                         /\ \A n \in names \ S : k[n] = "file" } }

GatherNames ==
    { readmeMd, licenseFile, installGo, mainGo, creditsTxt, installUpperGo, readFile, xReadme }

InitGather ==
    /\ pc = "gatherResources"
    /\ gx \in { [ZeroGx EXCEPT !.projDir = d] :
                  d \in { [abs |-> TRUE, comps |-> App], [abs |-> FALSE, comps |-> << app >>],
                          [abs |-> FALSE, comps |-> << nope >>] } }
    /\ cwd = Home
    /\ fs \in Listings(App, GatherNames)
    /\ args = [flagErr |-> "nil"]
    /\ err = "unset"
    /\ exitCode = -1
    /\ defers = <<>>
    /\ next = 0
    /\ built = <<>>
    /\ removeAlls = 0
    /\ events = <<>>

\* the call gx.resources, err = gatherResources(gx.projDir), ioutil.ReadDir failing
\* only on a directory that does not exist
callGatherResources ==
    /\ pc = "gatherResources"
    /\ gx' = [gx EXCEPT !.resources = gatherResources(fs, cwd, gx.projDir, NoFault).ret]
    /\ err' = gatherResources(fs, cwd, gx.projDir, NoFault).err
    /\ pc' = "gathered"
    /\ UNCHANGED <<args, cwd, fs, exitCode, defers, next, built, removeAlls, events>>

NextGather == callGatherResources

SpecGather == InitGather /\ [][NextGather]_vars

DestNames == { staleZip, staleTarGz, dotZip, dotTarGz, dotZipRc, notesTxt }

DestDir == Append(Home, goxzDir.comps[1])

InitDest ==
    /\ pc = "setupDest"
    /\ gx = [ZeroGx EXCEPT !.dest = goxzDir]
    /\ cwd = Home
    /\ fs \in Listings(DestDir, DestNames)
             \cup { MakeFs({ Node(<<>>, "dir"), Node(Home, "dir") }),
                    MakeFs({ Node(<<>>, "dir"), Node(Home, "dir"), Node(DestDir, "file") }) }
    /\ args = [flagErr |-> "nil"]
    /\ err = "unset"
    /\ exitCode = -1
    /\ defers = <<>>
    /\ next = 0
    /\ built = <<>>
    /\ removeAlls = 0
    /\ events = <<>>

DestFaults ==
    { NoFault } \cup { [op |-> o, n |-> 1] : o \in { "mkdir", "readdir" } }
                \cup { [op |-> "remove", n |-> i] : i \in 1..MaxEntries }

\* the call err := setupDest(gx.getDest())
callSetupDest ==
    /\ pc = "setupDest"
    /\ \E fault \in DestFaults :
          /\ fs' = setupDest(fs, cwd, gx.dest, fault).fs
          /\ err' = setupDest(fs, cwd, gx.dest, fault).err
    /\ pc' = "destReady"
    /\ UNCHANGED <<args, gx, cwd, exitCode, defers, next, built, removeAlls, events>>

NextDest == callSetupDest

SpecDest == InitDest /\ [][NextDest]_vars

(***************************************************************************)
(* Properties of the run.                                                  *)
(***************************************************************************)
Returned == pc = "exit" \/ (pc = "return" /\ defers = <<>>)

HasEvent(kind) == \E i \in 1..Len(events) : events[i].ev = kind

\* the workspace ioutil.TempDir created, as an absolute path
Workspace == events[CHOOSE i \in 1..Len(events) : events[i].ev = "workdir"].path

\* the directory the run works in: the starting directory, or the -C directory seen from it
ProjectDir == IF args.C = NoPath THEN Home ELSE Resolve(Home, args.C)

SomeBuildFailed == \E i \in 1..Len(built) : ~built[i].ok

\* C1: when setup succeeded and the build() of at least one Builder returned an error,
\* cli.run returns a non-nil error and Run returns a non-zero exit code.
C1_FailedBuildFailsRun ==
    (pc = "exit" /\ HasEvent("workdir") /\ SomeBuildFailed)
        => (err # "nil" /\ exitCode # exitCodeOK)

\* C2: once setup has succeeded, build() is invoked on the Builder of every resolved
\* platform exactly once and in the order of the platforms, whichever of them fail:
\* the invocations made so far are those of positions 1, 2, ... in order, and when
\* cli.run has returned there is one for every platform.
C2_EveryBuilderOnceInOrder ==
    /\ Len(built) <= Len(gx.platforms)
    /\ \A i \in 1..Len(built) : built[i].index = i /\ built[i].platform = gx.platforms[i]
    /\ (HasEvent("workdir") /\ pc \in {"return", "exit"}) => Len(built) = Len(gx.platforms)

\* C2 witness: a run has returned after its first Builder failed and two later ones ran
C2_Witness ==
    /\ pc = "exit"
    /\ Len(built) >= 3
    /\ ~built[1].ok
    /\ built[2].ok
    /\ ~built[3].ok

\* C4: after cli.run has returned from a run whose workspace was created, the
\* workspace exists if and only if -work was set; without -work os.RemoveAll ran
\* exactly once and nothing under the workspace is left, with -work it never ran.
C4_WorkspaceKeptIffWork ==
    /\ removeAlls <= 1
    /\ (Returned /\ HasEvent("workdir")) =>
          /\ (Workspace \in DOMAIN fs) <=> gx.work
          /\ ~gx.work => (removeAlls = 1 /\ \A a \in DOMAIN fs : ~IsUnder(a, Workspace))
          /\ gx.work => removeAlls = 0

\* C4 witness: a run without -work has returned after a Builder failed, its staging
\* directory and the workspace gone
C4_Witness ==
    /\ pc = "exit"
    /\ ~gx.work
    /\ HasEvent("workdir")
    /\ SomeBuildFailed
    /\ \E i \in 1..Len(events) : events[i].ev = "build" /\ IsUnder(events[i].path, Workspace)
    /\ Workspace \notin DOMAIN fs

\* C5: a flag-parse error makes Run return exit code 1 (not 2, not 0), and then no
\* destination is set up, no workspace is created and no Builder is executed.
C5_FlagErrorExitsOne ==
    (pc = "exit" /\ args.flagErr = "invalid")
        => (exitCode = exitFlagErr /\ events = <<>> /\ built = <<>>)

\* C8: no Builder is executed unless the destination was set up and then the workspace
\* created, in that order; and when a setup step failed, so that cli.run returned
\* without a workspace, it returned an error and made no build() invocation.
C8_NoBuildBeforeSetup ==
    /\ \A i \in 1..Len(events) :
          /\ events[i].ev = "build" =>
                \E j \in 1..(i - 1) : events[j].ev = "workdir"
          /\ events[i].ev = "workdir" =>
                \E j \in 1..(i - 1) : events[j].ev = "dest"
    /\ built # <<>> => HasEvent("workdir")
    /\ (pc \in {"return", "exit"} /\ ~HasEvent("workdir")) => (err # "nil" /\ built = <<>>)

\* C8 witness: the run has exited on a failed workspace creation, the destination
\* already set up, with no Builder executed
C8_Witness ==
    /\ pc = "exit"
    /\ err = "tempdir"
    /\ HasEvent("dest")
    /\ built = <<>>
    /\ Len(gx.platforms) >= 2

\* C10: for every -C value, the workspace is a direct child of the project directory
\* the run changed into, and the resources are gathered from that directory.
C10_WorkspaceInProjectDir ==
    /\ HasEvent("workdir") => Parent(Workspace) = ProjectDir
    /\ pc \in {"prepareWorkdir", "builders"} =>
          \A i \in 1..Len(gx.resources) : Parent(Resolve(cwd, gx.resources[i])) = ProjectDir

(***************************************************************************)
(* Properties of resolvePlatforms.                                         *)
(***************************************************************************)
\* a character that separates the tokens of an -os or -arch list
IsSeparator(c) == IsSpace(c) \/ c = ","

\* the non-empty tokens of s in input order: its maximal runs of other characters,
\* given by where they start
TokenStarts(s) ==
    { i \in 1..Len(s) : ~IsSeparator(s[i]) /\ (i = 1 \/ IsSeparator(s[i - 1])) }

TokenAt(s, i) ==
    SubSeq(s, i, CHOOSE j \in i..Len(s) :
                    /\ \A k \in i..j : ~IsSeparator(s[k])
                    /\ (j = Len(s) \/ IsSeparator(s[j + 1])))

RECURSIVE TokensFrom(_, _)
TokensFrom(s, i) ==
    IF i > Len(s) THEN <<>>
    ELSE IF i \in TokenStarts(s) THEN << TokenAt(s, i) >> \o TokensFrom(s, i + 1)
    ELSE TokensFrom(s, i + 1)

Tokens(s) == TokensFrom(s, 1)

Range(q) == { q[i] : i \in 1..Len(q) }

\* the os-major Cartesian product of two token sequences
Product(ts, us) ==
    [ n \in 1..(Len(ts) * Len(us)) |->
        [ os |-> ts[((n - 1) \div Len(us)) + 1], arch |-> us[((n - 1) % Len(us)) + 1] ] ]

\* q without the elements that repeat an earlier one
RECURSIVE FirstSeen(_)
FirstSeen(q) ==
    IF q = <<>> THEN <<>>
    ELSE IF q[Len(q)] \in Range(SubSeq(q, 1, Len(q) - 1))
         THEN FirstSeen(SubSeq(q, 1, Len(q) - 1))
         ELSE Append(FirstSeen(SubSeq(q, 1, Len(q) - 1)), q[Len(q)])

\* C6: resolvePlatforms returns no (os, arch) pair twice, and as many platforms as
\* there are distinct pairs in the product of the non-empty os tokens and the
\* non-empty arch tokens.
C6_DistinctPairsOfProduct ==
    pc = "resolved" =>
        /\ \A i, j \in 1..Len(gx.platforms) : gx.platforms[i] = gx.platforms[j] => i = j
        /\ Len(gx.platforms) = Cardinality(Range(Tokens(gx.os)) \X Range(Tokens(gx.arch)))

\* C7: resolvePlatforms returns the pairs of the os-major product of the non-empty
\* tokens in first-seen order, a repeated pair at its first position, and no platform
\* with an empty or blank os or arch.
C7_FirstSeenOrder ==
    pc = "resolved" =>
        /\ gx.platforms = FirstSeen(Product(Tokens(gx.os), Tokens(gx.arch)))
        /\ \A i \in 1..Len(gx.platforms) :
              TrimSpace(gx.platforms[i].os) # <<>> /\ TrimSpace(gx.platforms[i].arch) # <<>>

(***************************************************************************)
(* Properties of setupDest.                                                *)
(***************************************************************************)
\* C3: after setupDest has returned without error on a destination that existed, the
\* destination holds no regular file whose name ends in ".zip" or ".tar.gz".
C3_StaleArchivesPurged ==
    (pc = "destReady" /\ err = "nil") =>
        \A a \in DOMAIN fs :
            (Len(a) = Len(DestDir) + 1 /\ IsUnder(a, DestDir) /\ fs[a] = "file")
                => ~(HasSuffix(a[Len(a)], dotZip) \/ HasSuffix(a[Len(a)], dotTarGz))

(***************************************************************************)
(* Properties of gatherResources.                                          *)
(***************************************************************************)
GatherDir == Resolve(cwd, gx.projDir)

\* n starts with p, letter case ignored
StartsWithFold(n, p) == Len(n) >= Len(p) /\ \A i \in 1..Len(p) : ToLowerChar(n[i]) = p[i]

\* the names gatherResources is to return: the regular files directly in the
\* directory named readme*, license*, credit* or install* and not *.go
Wanted ==
    { n \in NamesIn(fs, GatherDir) :
        /\ fs[Append(GatherDir, n)] = "file"
        /\ \E p \in resourcePrefixes : StartsWithFold(n, p)
        /\ ~(Len(n) >= 3 /\ SubSeq(n, Len(n) - 2, Len(n)) = << ".", "g", "o" >>) }

\* C9: on a directory that can be listed gatherResources returns no error and, in
\* the order of the listing (ioutil.ReadDir sorts by name) and each once, the paths
\* of exactly the wanted entries; nothing else, and the empty sequence when nothing
\* is wanted.
C9_ExactlyTheResources ==
    (pc = "gathered" /\ IsDir(fs, GatherDir)) =>
        /\ err = "nil"
        /\ Range(gx.resources) = { Join(gx.projDir, n) : n \in Wanted }
        /\ \A i, j \in 1..Len(gx.resources) :
              i < j => StrLess(Base(gx.resources[i]), Base(gx.resources[j]))
        /\ Wanted = {} => gx.resources = <<>>

\* C9 witness: a resource returned from a directory that also holds install.go as a
\* regular file and a non-regular entry with a resource name
C9_Witness ==
    /\ pc = "gathered"
    /\ err = "nil"
    /\ Len(gx.resources) = 1
    /\ Append(GatherDir, installGo) \in DOMAIN fs
    /\ fs[Append(GatherDir, installGo)] = "file"
    /\ \E n \in NamesIn(fs, GatherDir) :
          fs[Append(GatherDir, n)] # "file" /\ \E p \in resourcePrefixes : StartsWithFold(n, p)

====
